---- MODULE Spec2Model ----
(***************************************************************************)
(* Model of CG-SolarSystem-Final/main.cpp: the render loop of main (frame  *)
(* time, meteor pool, control panel, Sun and planet angle advance, meteor  *)
(* draw) and the camera input handlers (key_callback, mouse_callback and   *)
(* the camera widgets of the control panel).                               *)
(*                                                                         *)
(* Numbers are fixed point:                                                *)
(*   time               milliseconds          (1 s     = 1000)             *)
(*   planet / Sun angle micro-degrees         (1 deg   = 1000000)          *)
(*   planet speed       milli-degrees per s   (30 deg/s = 30000)           *)
(*   meteor position    1e-5 screen units     (1.2     = 120000)           *)
(*   meteor velocity    1e-2 units per second (0.4 /s  = 40)               *)
(*   camera angle       centi-degrees         (90 deg  = 9000)             *)
(*   cursor position    pixels                                             *)
(* so that speed * dt is an angle and velocity * dt is a position.         *)
(***************************************************************************)
EXTENDS Integers, Sequences, FiniteSets, TLC

VARIABLES
    pc,                   \* position of main in its render loop
    shouldClose,          \* glfwWindowShouldClose(window)
    lastFrame,            \* main: lastFrame
    deltaTime,            \* main: deltaTime
    totalTime,            \* main: totalTime
    effectiveDeltaTime,   \* main: effectiveDeltaTime
    animationPaused,      \* global animationPaused
    showMeteorites,       \* global showMeteorites
    meteoriteCount,       \* global meteoriteCount
    meteorites,           \* main: std::vector<Meteorite> meteorites
    planets,              \* main: std::vector<Planet> planets
    sunRotationAngle,     \* main: sunRotationAngle
    drawn,                \* slots given to glDrawArrays(GL_POINTS) this frame
    cameraPitch,          \* global cameraPitch
    cameraYaw,            \* global cameraYaw
    firstMouse,           \* global firstMouse
    mouseControleEnabled, \* global mouseControleEnabled
    lastMouseX,           \* global lastMouseX
    lastMouseY,           \* global lastMouseY
    stackCount,           \* createSphere: stackCount
    sectorCount,          \* createSphere: sectorCount
    sphereVertices,       \* main: std::vector<float> sphereVertices
    sphereIndices,        \* main: std::vector<unsigned int> sphereIndices
    sphereCalls,          \* calls of createSphere made on these two buffers
    orbitSegments,        \* main: orbitSegments
    circleVertices,       \* main: std::vector<float> circleVertices
    circleCalls,          \* calls of createCircle made on circleVertices
    textures,             \* the fields of SolarSystemTextures assigned so far
    failedLoads,          \* the fields whose file stbi_load could not decode
    showEducationalTable, \* global showEducationalTable
    showOnlyRockyPlanets, \* global showOnlyRockyPlanets
    showOnlyGasGiants,    \* global showOnlyGasGiants
    earthOrbitAngle,      \* first version of main: earthOrbitAngle
    earthRotationAngle,   \* first version of main: earthRotationAngle
    moonOrbitAngle        \* first version of main: moonOrbitAngle

simVars == <<pc, shouldClose, lastFrame, deltaTime, totalTime, effectiveDeltaTime,
             animationPaused, showMeteorites, meteoriteCount, meteorites,
             planets, sunRotationAngle, drawn>>

camVars == <<cameraPitch, cameraYaw, firstMouse, mouseControleEnabled,
             lastMouseX, lastMouseY>>

geoVars == <<stackCount, sectorCount, sphereVertices, sphereIndices, sphereCalls,
             orbitSegments, circleVertices, circleCalls>>

\* what the render loop and the input handlers never write
texVars == <<textures, failedLoads>>

tableVars == <<showEducationalTable, showOnlyRockyPlanets, showOnlyGasGiants>>

firstVersionVars == <<earthOrbitAngle, earthRotationAngle, moonOrbitAngle>>

setupVars == <<geoVars, texVars, tableVars, firstVersionVars>>

vars == <<pc, shouldClose, lastFrame, deltaTime, totalTime, effectiveDeltaTime,
          animationPaused, showMeteorites, meteoriteCount, meteorites,
          planets, sunRotationAngle, drawn,
          cameraPitch, cameraYaw, firstMouse, mouseControleEnabled,
          lastMouseX, lastMouseY,
          stackCount, sectorCount, sphereVertices, sphereIndices, sphereCalls,
          orbitSegments, circleVertices, circleCalls,
          textures, failedLoads,
          showEducationalTable, showOnlyRockyPlanets, showOnlyGasGiants,
          earthOrbitAngle, earthRotationAngle, moonOrbitAngle>>

----------------------------------------------------------------------------
(* Bounds of the model *)

\* the clock is read up to this many seconds after start-up
MaxSeconds == 9

MaxTime == MaxSeconds * 1000

\* frame times glfwGetTime() - lastFrame, in milliseconds
DtVals == {1000, 3000}

\* values returned by rand()
RandVals == {0, 2999}

\* values typed into the "Cantidad" input
CountInputs == {0, 7}

\* the camera's yaw is followed up to this many full turns either way
MaxYawTurns == 3

\* cursor positions reported to mouse_callback, in pixels
MouseXs == {0, 1280}
MouseYs == {0, 96, 100000}

\* the camera's pitch is followed up to this many key steps either way in
\* the specification that runs the camera inputs inside the render loop
MaxPitchSteps == 2

\* cursor positions reported while the render loop runs: quarter turns of yaw
LoopMouseXs == {460, 640}
LoopMouseYs == {384}

\* cursor positions of the specification that steers the camera by the
\* mouse: pitch steps of 10 to 100 degrees, yaw steps of 90, 360 and 450
ViewMouseXs == {0, 180, 900}
ViewMouseYs == {0, 40, 120, 180, 200}

\* deltaTime arguments of the calls of renderPlanet on a single body, in
\* milliseconds, and the speeds of that body, in milli-degrees per second
BodyDts == {0, 1000, 2000, 3000, 6000}
BodyOrbitSpeeds == {-30000, 30000}
BodyRotationSpeeds == {0, 60000}
BodyOrbitRadii == {0, 3500}
BodyNames == {"Tierra", "Saturno"}

\* rotation angles given to a second body that is compared with the first
BodySpins == {0, 90000000}

\* Mesh resolutions createSphere is run at; 18 stacks by 36 sectors is the
\* program's
StackCounts == {2, 3, 6, 18}
SectorCounts == {3, 4, 6, 36}

\* Segment counts createCircle is run at
SegmentCounts == {1, 2, 3, 4, 8, 72}

\* Calls of a generator on the same buffers
MaxGeneratorCalls == 2

\* Frame times of the first version's loop, in milliseconds
FirstVersionDts == {0, 500, 1000, 2000}

\* Texture files that fail to decode in one start-up
MaxDecodeFailures == 2

----------------------------------------------------------------------------
(* Program constants *)

MAX_METEORITES == 6

FullTurn == 360000000

sunRotationSpeed == 5000

\* x > 1.2f, y < -1.2f
ExitBound == 120000

\* totalTime + 3.0f
BaseDelay == 3000

maxPitch == 9000

minPitch == -9000

\* pitchSpeed * 0.016f = 0.48 degrees
pitchIncrement == 48

\* mouseSensitivity = 0.5 degrees per pixel
mouseSensitivity == 50

\* float cameraDistance = 22.0f
cameraDistance == 22

Slots == 0 .. (MAX_METEORITES - 1)

\* the Planet structs main pushes into planets, lengths in 1e-3 units; a
\* texture field is 1 for a loaded texture and 0 for none
PlanetConfig ==
    << [name |-> "Mercurio", orbitRadius |-> 1500, orbitSpeed |-> 47900, orbitAngle |-> 0,
        rotationSpeed |-> 17, rotationAngle |-> 0, size |-> 150,
        hasMoon |-> FALSE, moonDistance |-> 0, moonSpeed |-> 0, moonAngle |-> 0,
        moonTexture |-> 0, hasRing |-> FALSE, ringTexture |-> 0],
       [name |-> "Venus", orbitRadius |-> 2000, orbitSpeed |-> 35000, orbitAngle |-> 0,
        rotationSpeed |-> 4, rotationAngle |-> 0, size |-> 250,
        hasMoon |-> FALSE, moonDistance |-> 0, moonSpeed |-> 0, moonAngle |-> 0,
        moonTexture |-> 0, hasRing |-> FALSE, ringTexture |-> 0],
       [name |-> "Tierra", orbitRadius |-> 3500, orbitSpeed |-> 30000, orbitAngle |-> 0,
        rotationSpeed |-> 60000, rotationAngle |-> 0, size |-> 300,
        hasMoon |-> TRUE, moonDistance |-> 700, moonSpeed |-> 200000, moonAngle |-> 0,
        moonTexture |-> 1, hasRing |-> FALSE, ringTexture |-> 0],
       [name |-> "Marte", orbitRadius |-> 4500, orbitSpeed |-> 24100, orbitAngle |-> 0,
        rotationSpeed |-> 31000, rotationAngle |-> 0, size |-> 200,
        hasMoon |-> FALSE, moonDistance |-> 0, moonSpeed |-> 0, moonAngle |-> 0,
        moonTexture |-> 0, hasRing |-> FALSE, ringTexture |-> 0],
       [name |-> "Jupiter", orbitRadius |-> 6000, orbitSpeed |-> 13100, orbitAngle |-> 0,
        rotationSpeed |-> 28000, rotationAngle |-> 0, size |-> 500,
        hasMoon |-> FALSE, moonDistance |-> 0, moonSpeed |-> 0, moonAngle |-> 0,
        moonTexture |-> 0, hasRing |-> TRUE, ringTexture |-> 1],
       [name |-> "Saturno", orbitRadius |-> 7500, orbitSpeed |-> 9700, orbitAngle |-> 0,
        rotationSpeed |-> 22000, rotationAngle |-> 0, size |-> 450,
        hasMoon |-> FALSE, moonDistance |-> 0, moonSpeed |-> 0, moonAngle |-> 0,
        moonTexture |-> 0, hasRing |-> TRUE, ringTexture |-> 1],
       [name |-> "Urano", orbitRadius |-> 9000, orbitSpeed |-> 6800, orbitAngle |-> 0,
        rotationSpeed |-> 17000, rotationAngle |-> 0, size |-> 400,
        hasMoon |-> FALSE, moonDistance |-> 0, moonSpeed |-> 0, moonAngle |-> 0,
        moonTexture |-> 0, hasRing |-> TRUE, ringTexture |-> 1],
       [name |-> "Neptuno", orbitRadius |-> 10500, orbitSpeed |-> 5400, orbitAngle |-> 0,
        rotationSpeed |-> 16000, rotationAngle |-> 0, size |-> 380,
        hasMoon |-> FALSE, moonDistance |-> 0, moonSpeed |-> 0, moonAngle |-> 0,
        moonTexture |-> 0, hasRing |-> TRUE, ringTexture |-> 1] >>

PlanetIds == 1 .. Len(PlanetConfig)

\* planetEducationalData, lines 164-279: the name and planetType of each entry
planetEducationalData ==
    << [name |-> "Mercurio", planetType |-> "Rocoso"],
       [name |-> "Venus",    planetType |-> "Rocoso"],
       [name |-> "Tierra",   planetType |-> "Rocoso"],
       [name |-> "Marte",    planetType |-> "Rocoso"],
       [name |-> "Jupiter",  planetType |-> "Gaseoso"],
       [name |-> "Saturno",  planetType |-> "Gaseoso"],
       [name |-> "Urano",    planetType |-> "Gigante de hielo"],
       [name |-> "Neptuno",  planetType |-> "Gigante de hielo"] >>

\* first version of main, lines 146-152, in milli-degrees per second
earthOrbitSpeed == 30000
earthRotationSpeed == 60000
moonOrbitSpeed == 200000

----------------------------------------------------------------------------
(* Pure helpers *)

\* a wrap by one conditional subtraction in place of std::fmod
FmodOnce(x, m) == IF x >= m THEN x - m ELSE x

\* a wrap that starts the turn again from 0
FmodReset(x, m) == IF x >= m THEN 0 ELSE x

\* std::fmod(x, m) for m > 0: the remainder of the division truncated toward
\* zero, which has the sign of x
Fmod(x, m) == IF x >= 0 THEN x % m ELSE -((-x) % m)

\* the frame time taken whatever the pause flag is
EffectiveDeltaTimeUnpaused(paused, dt) == dt

\* float effectiveDeltaTime = animationPaused ? 0.0f : deltaTime
EffectiveDeltaTime(paused, dt) == IF paused THEN 0 ELSE dt

\* the angle updates without the test of hasMoon
AdvanceAnglesMoonAlways(p, dt) ==
    [p EXCEPT !.orbitAngle    = Fmod(p.orbitAngle + p.orbitSpeed * dt, FullTurn),
              !.rotationAngle = Fmod(p.rotationAngle + p.rotationSpeed * dt, FullTurn),
              !.moonAngle     = Fmod(p.moonAngle + p.moonSpeed * dt, FullTurn)]

\* the angle updates of renderPlanet on the Planet p
AdvanceAngles(p, dt) ==
    [p EXCEPT !.orbitAngle    = Fmod(p.orbitAngle + p.orbitSpeed * dt, FullTurn),
              !.rotationAngle = Fmod(p.rotationAngle + p.rotationSpeed * dt, FullTurn),
              !.moonAngle     = IF p.hasMoon
                                THEN Fmod(p.moonAngle + p.moonSpeed * dt, FullTurn)
                                ELSE p.moonAngle]

\* A model matrix is kept as the sequence of the elementary transforms whose
\* product it is, in the order glm multiplies them: <<kind, angle, x, y, z>>
\* with the angle in micro-degrees, translations in 1e-3 units and scale
\* factors in 1e-6.
Identity == << >>

\* glm::rotate(M, glm::radians(angle), glm::vec3(x, y, z))
Rotate(M, angle, x, y, z) == Append(M, <<"rotate", angle, x, y, z>>)

\* glm::translate(M, glm::vec3(x, y, z))
Translate(M, x, y, z) == Append(M, <<"translate", 0, x, y, z>>)

\* glm::scale(M, glm::vec3(x, y, z))
Scale(M, x, y, z) == Append(M, <<"scale", 0, x, y, z>>)

\* planetSystem of renderPlanet: the orbit rotation, then the orbit radius
PlanetSystem(p) ==
    Translate(Rotate(Identity, p.orbitAngle, 0, 1, 0), p.orbitRadius, 0, 0)

\* planetModel of renderPlanet: planetSystem, the spin, the size
PlanetModel(p) ==
    Scale(Rotate(PlanetSystem(p), p.rotationAngle, 0, 1, 0),
          p.size * 1000, p.size * 1000, p.size * 1000)

\* the ring drawn on top of the spinning planet model
RingModelFromPlanetModel(p) ==
    LET base == Rotate(PlanetSystem(p), p.rotationAngle, 0, 1, 0) IN
    IF p.name = "Saturno"
    THEN Scale(Rotate(base, 23000000, 1, 0, 0),
               p.size * 1700, p.size * 50, p.size * 1700)
    ELSE IF p.name = "Jupiter"
    THEN Scale(Rotate(base, 3000000, 1, 0, 0),
               p.size * 1400, p.size * 20, p.size * 1400)
    ELSE IF p.name = "Urano"
    THEN Scale(Rotate(base, 98000000, 1, 0, 0),
               p.size * 1300, p.size * 30, p.size * 1300)
    ELSE IF p.name = "Neptuno"
    THEN Scale(Rotate(base, 29000000, 1, 0, 0),
               p.size * 1500, p.size * 25, p.size * 1500)
    ELSE base

\* ringModel of renderPlanet, drawn when hasRing and ringTexture != 0
RingModel(p) ==
    IF p.name = "Saturno"
    THEN Scale(Rotate(PlanetSystem(p), 23000000, 1, 0, 0),
               p.size * 1700, p.size * 50, p.size * 1700)
    ELSE IF p.name = "Jupiter"
    THEN Scale(Rotate(PlanetSystem(p), 3000000, 1, 0, 0),
               p.size * 1400, p.size * 20, p.size * 1400)
    ELSE IF p.name = "Urano"
    THEN Scale(Rotate(PlanetSystem(p), 98000000, 1, 0, 0),
               p.size * 1300, p.size * 30, p.size * 1300)
    ELSE IF p.name = "Neptuno"
    THEN Scale(Rotate(PlanetSystem(p), 29000000, 1, 0, 0),
               p.size * 1500, p.size * 25, p.size * 1500)
    ELSE PlanetSystem(p)

\* moonModel of renderPlanet, drawn when hasMoon and moonTexture != 0
MoonModel(p) ==
    Scale(Translate(Rotate(PlanetSystem(p), p.moonAngle, 0, 1, 0),
                    p.moonDistance, 0, 0),
          p.size * 300, p.size * 300, p.size * 300)

\* the matrices renderPlanet hands to shader.setMat4("model", ...) in a call
\* with the argument dt, in the order of its draws
RenderPlanetModels(p, dt) ==
    LET q == AdvanceAngles(p, dt) IN
    [planet |-> PlanetModel(q),
     ring   |-> IF q.hasRing /\ q.ringTexture # 0 THEN <<RingModel(q)>> ELSE << >>,
     moon   |-> IF q.hasMoon /\ q.moonTexture # 0 THEN <<MoonModel(q)>> ELSE << >>]

\* the spawn point computed from two rand() values
SpawnX(r) == -120000 - (r % 100) * 500
SpawnY(r) == 120000 + (r % 100) * 500

\* a pool slot as main initialises it from five rand() values
NewMeteorite(rd, rx, ry, rvx, rvy) ==
    [isVisible    |-> FALSE,
     initialDelay |-> rd % 5000,
     x  |-> SpawnX(rx),
     y  |-> SpawnY(ry),
     vx |-> 40 + (rvx % 40),
     vy |-> -40 - (rvy % 40)]

\* the activation test reversed: a slot wakes before its time, not after it
UpdateMeteoriteReversed(m, now, dt, rx, ry, rd) ==
    IF ~m.isVisible
    THEN IF now < m.initialDelay
         THEN [m EXCEPT !.isVisible = TRUE,
                        !.x = SpawnX(rx),
                        !.y = SpawnY(ry),
                        !.initialDelay = now + BaseDelay + (rd % 3000)]
         ELSE m
    ELSE LET nx == m.x + m.vx * dt
             ny == m.y + m.vy * dt
         IN  [m EXCEPT !.x = nx,
                       !.y = ny,
                       !.isVisible = ~(nx > ExitBound \/ ny < -ExitBound)]

\* the activation without the move to a spawn point
UpdateMeteoriteNoSpawn(m, now, dt, rx, ry, rd) ==
    IF ~m.isVisible
    THEN IF now > m.initialDelay
         THEN [m EXCEPT !.isVisible = TRUE,
                        !.initialDelay = now + BaseDelay + (rd % 3000)]
         ELSE m
    ELSE LET nx == m.x + m.vx * dt
             ny == m.y + m.vy * dt
         IN  [m EXCEPT !.x = nx,
                       !.y = ny,
                       !.isVisible = ~(nx > ExitBound \/ ny < -ExitBound)]

\* the exit test on the right edge alone
UpdateMeteoriteExitX(m, now, dt, rx, ry, rd) ==
    IF ~m.isVisible
    THEN IF now > m.initialDelay
         THEN [m EXCEPT !.isVisible = TRUE,
                        !.x = SpawnX(rx),
                        !.y = SpawnY(ry),
                        !.initialDelay = now + BaseDelay + (rd % 3000)]
         ELSE m
    ELSE LET nx == m.x + m.vx * dt
             ny == m.y + m.vy * dt
         IN  [m EXCEPT !.x = nx,
                       !.y = ny,
                       !.isVisible = ~(nx > ExitBound)]

\* a visible meteor that is moved but never tested against the screen edge
UpdateMeteoriteNoExit(m, now, dt, rx, ry, rd) ==
    IF ~m.isVisible
    THEN IF now > m.initialDelay
         THEN [m EXCEPT !.isVisible = TRUE,
                        !.x = SpawnX(rx),
                        !.y = SpawnY(ry),
                        !.initialDelay = now + BaseDelay + (rd % 3000)]
         ELSE m
    ELSE IF m.x > ExitBound
         THEN m
         ELSE [m EXCEPT !.x = m.x + m.vx * dt,
                        !.y = m.y + m.vy * dt]

\* the next appearance scheduled when the meteor leaves the screen as well
UpdateMeteoriteDelayOnExit(m, now, dt, rx, ry, rd) ==
    IF ~m.isVisible
    THEN IF now > m.initialDelay
         THEN [m EXCEPT !.isVisible = TRUE,
                        !.x = SpawnX(rx),
                        !.y = SpawnY(ry),
                        !.initialDelay = now + BaseDelay + (rd % 3000)]
         ELSE m
    ELSE LET nx == m.x + m.vx * dt
             ny == m.y + m.vy * dt
             out == nx > ExitBound \/ ny < -ExitBound
         IN  [m EXCEPT !.x = nx,
                       !.y = ny,
                       !.isVisible = ~out,
                       !.initialDelay = IF out THEN now + BaseDelay + (rd % 3000)
                                        ELSE m.initialDelay]

\* one slot's step of the update loop when showMeteorites is set and the slot
\* index is below meteoriteCount; now is totalTime, dt is deltaTime
UpdateMeteorite(m, now, dt, rx, ry, rd) ==
    IF ~m.isVisible
    THEN IF now > m.initialDelay
         THEN [m EXCEPT !.isVisible = TRUE,
                        !.x = SpawnX(rx),
                        !.y = SpawnY(ry),
                        !.initialDelay = now + BaseDelay + (rd % 3000)]
         ELSE m
    ELSE LET nx == m.x + m.vx * dt
             ny == m.y + m.vy * dt
         IN  [m EXCEPT !.x = nx,
                       !.y = ny,
                       !.isVisible = ~(nx > ExitBound \/ ny < -ExitBound)]

\* the update without the loop that hides every slot of a disabled shower
UpdateMeteoritesNoHide(ms, show, count, now, dt, rx, ry, rd) ==
    IF show
    THEN [i \in Slots |-> IF i < count
                          THEN UpdateMeteorite(ms[i], now, dt, rx, ry, rd)
                          ELSE ms[i]]
    ELSE ms

\* the whole update of the pool at the top of a frame
UpdateMeteorites(ms, show, count, now, dt, rx, ry, rd) ==
    IF show
    THEN [i \in Slots |-> IF i < count
                          THEN UpdateMeteorite(ms[i], now, dt, rx, ry, rd)
                          ELSE ms[i]]
    ELSE [i \in Slots |-> [ms[i] EXCEPT !.isVisible = FALSE]]

\* the slots the draw loop hands to glDrawArrays
DrawnMeteorites(ms, show, count) ==
    IF show THEN {i \in Slots : i < count /\ ms[i].isVisible} ELSE {}

\* the clamp without its upper limit
ClampCountLowerOnly(v) == IF v < 1 THEN 1 ELSE v

\* the clamp applied to the value typed into "Cantidad"
ClampCount(v) == IF v < 1 THEN 1 ELSE IF v > 6 THEN 6 ELSE v

\* the pitch step skipped while the animation is paused
PitchUpUnlessPaused(p) ==
    IF animationPaused THEN p
    ELSE IF p + pitchIncrement > maxPitch THEN maxPitch ELSE p + pitchIncrement

\* cameraPitch += pitchIncrement; if (cameraPitch > maxPitch) cameraPitch = maxPitch
PitchUp(p) == IF p + pitchIncrement > maxPitch THEN maxPitch ELSE p + pitchIncrement

\* cameraPitch -= pitchIncrement; if (cameraPitch < minPitch) cameraPitch = minPitch
PitchDown(p) == IF p - pitchIncrement < minPitch THEN minPitch ELSE p - pitchIncrement

\* the upper pitch limit without the lower one
ClampPitchUpperOnly(p) == IF p > maxPitch THEN maxPitch ELSE p

\* the two pitch limits of mouse_callback, applied one after the other
ClampPitch(p) ==
    LET q == IF p > maxPitch THEN maxPitch ELSE p
    IN  IF q < minPitch THEN minPitch ELSE q

\* the two yaw tests of mouse_callback, applied one after the other
WrapYaw(y) ==
    LET z == IF y > 36000 THEN y - 36000 ELSE y
    IN  IF z < 0 THEN z + 36000 ELSE z

\* abs(cameraPitch)
Abs(x) == IF x < 0 THEN -x ELSE x

\* sin of 0, 5, ..., 90 degrees in 1e-4
SinTable ==
    <<0, 872, 1736, 2588, 3420, 4226, 5000, 5736, 6428, 7071,
      7660, 8192, 8660, 9063, 9397, 9659, 9848, 9962, 10000>>

\* sin(glm::radians(a)) in 1e-4 for an angle a in centi-degrees that is a
\* multiple of 5 degrees
SinDeg(a) ==
    LET t == a % 36000 IN
    IF t <= 9000 THEN SinTable[(t \div 500) + 1]
    ELSE IF t <= 18000 THEN SinTable[((18000 - t) \div 500) + 1]
    ELSE IF t <= 27000 THEN -SinTable[((t - 18000) \div 500) + 1]
    ELSE -SinTable[((36000 - t) \div 500) + 1]

\* cos(glm::radians(a)) in 1e-4
CosDeg(a) == SinDeg(a + 9000)

\* the eye with the roles of sin(yaw) and cos(yaw) exchanged
CameraPosSwapped(pitch, yaw) ==
    << (cameraDistance * ((CosDeg(pitch) * CosDeg(yaw)) \div 100)) \div 1000,
       (cameraDistance * SinDeg(pitch)) \div 10,
       (cameraDistance * ((CosDeg(pitch) * SinDeg(yaw)) \div 100)) \div 1000 >>

\* cameraPos of lines 1334-1338, in 1e-3 units
CameraPos(pitch, yaw) ==
    << (cameraDistance * ((CosDeg(pitch) * SinDeg(yaw)) \div 100)) \div 1000,
       (cameraDistance * SinDeg(pitch)) \div 10,
       (cameraDistance * ((CosDeg(pitch) * CosDeg(yaw)) \div 100)) \div 1000 >>

\* float factor = (90.0f - abs(cameraPitch)) / 20.0f, in 1e-4
UpFactor(pitch) == (9000 - Abs(pitch)) * 5

\* the blend with a Z component that is the factor itself
CameraUpZFactor(pitch) ==
    IF Abs(pitch) > 7000
    THEN <<0, UpFactor(pitch),
           IF pitch > 0 THEN -UpFactor(pitch) ELSE UpFactor(pitch)>>
    ELSE <<0, 10000, 0>>

\* the blend with the Z component on the side of the pitch
CameraUpSameSide(pitch) ==
    IF Abs(pitch) > 7000
    THEN <<0, UpFactor(pitch),
           IF pitch > 0 THEN 10000 - UpFactor(pitch) ELSE -(10000 - UpFactor(pitch))>>
    ELSE <<0, 10000, 0>>

\* cameraUp of lines 1341-1346 as it is handed to glm::normalize (blend
\* active) or to glm::lookAt (blend inactive), in 1e-4
CameraUp(pitch) ==
    IF Abs(pitch) > 7000
    THEN <<0, UpFactor(pitch),
           IF pitch > 0 THEN -(10000 - UpFactor(pitch)) ELSE 10000 - UpFactor(pitch)>>
    ELSE <<0, 10000, 0>>

\* lines 501-506: the entries of planetEducationalData the table loop does
\* not skip, in order; no table is drawn when it is switched off (line 411)
RECURSIVE TableRowsFrom(_, _, _)
TableRowsFrom(i, rocky, gas) ==
    IF i > Len(planetEducationalData) THEN <<>>
    ELSE LET planet == planetEducationalData[i]
         IN IF rocky /\ planet.planetType # "Rocoso" THEN TableRowsFrom(i + 1, rocky, gas)
            ELSE IF gas /\ planet.planetType = "Rocoso" THEN TableRowsFrom(i + 1, rocky, gas)
            ELSE <<planet>> \o TableRowsFrom(i + 1, rocky, gas)

TableRows(shown, rocky, gas) ==
    IF shown THEN TableRowsFrom(1, rocky, gas) ELSE <<>>

\* first version of main, lines 226-233: angle += speed * deltaTime;
\* if (angle >= 360.0f) angle -= 360.0f
FirstVersionAdvance(angle, speed, dt) ==
    IF angle + speed * dt >= FullTurn THEN angle + speed * dt - FullTurn
    ELSE angle + speed * dt

----------------------------------------------------------------------------
(* Geometry generators: createSphere and createCircle.  Coordinates are in *)
(* 1e-4 and angles in centi-degrees; the step angles are multiples of five *)
(* degrees for every resolution below, so SinDeg and CosDeg are defined.   *)

\* xy * cosf(sectorAngle) and its like: a product of two numbers in 1e-4
MulFix(a, b) == IF a * b >= 0 THEN (a * b) \div 10000 ELSE -((-(a * b)) \div 10000)

\* lines 710-736: the eight floats pushed for stack i and sector j
SphereVertex(i, j, stacks, sectors) ==
    LET stackAngle  == 9000 - i * (18000 \div stacks)
        xy          == CosDeg(stackAngle)
        z           == SinDeg(stackAngle)
        sectorAngle == j * (36000 \div sectors)
        x           == MulFix(xy, CosDeg(sectorAngle))
        y           == MulFix(xy, SinDeg(sectorAngle))
        u           == (j * 10000) \div sectors
        t           == (i * 10000) \div stacks
    IN <<x, y, z, x, y, z, u, t>>

\* lines 714-737: the floats the inner loop pushes for stack i, eight for
\* each j of for (j = 0; j <= sectorCount; ++j)
SphereRow(i, stacks, sectors) ==
    [n \in 1..(8 * (sectors + 1)) |->
        SphereVertex(i, (n - 1) \div 8, stacks, sectors)[((n - 1) % 8) + 1]]

\* lines 709-738: the outer loop, for (i = from; i <= stackCount; ++i)
RECURSIVE SphereRows(_, _, _, _)
SphereRows(vertices, from, stacks, sectors) ==
    IF from > stacks THEN vertices
    ELSE SphereRows(vertices \o SphereRow(from, stacks, sectors),
                    from + 1, stacks, sectors)

\* the vertex loops of createSphere: what they leave in the vector passed
createSphereVertices(vertices, stacks, sectors) ==
    SphereRows(vertices, 0, stacks, sectors)

\* the triangles of a quad with both triangles emitted in every stack
QuadIndicesBothAlways(i, k1, k2, stacks) ==
    <<k1, k2, k1 + 1>> \o <<k1 + 1, k2, k2 + 1>>

\* lines 747-759: the indices pushed for the quad at k1, k2 of stack i
QuadIndices(i, k1, k2, stacks) ==
    (IF i # 0 THEN <<k1, k2, k1 + 1>> ELSE <<>>)
    \o (IF i # stacks - 1 THEN <<k1 + 1, k2, k2 + 1>> ELSE <<>>)

\* lines 743-760: the indices the inner loop pushes for stack i, those of
\* one quad for each j of for (j = 0; j < sectorCount; ++j, ++k1, ++k2)
IndexRow(i, stacks, sectors) ==
    LET k1  == i * (sectors + 1)
        k2  == k1 + sectors + 1
        per == Len(QuadIndices(i, k1, k2, stacks))
    IN [n \in 1..(per * sectors) |->
           LET j == (n - 1) \div per
           IN QuadIndices(i, k1 + j, k2 + j, stacks)[((n - 1) % per) + 1]]

\* lines 742-761: the outer loop, for (i = from; i < stackCount; ++i)
RECURSIVE IndexRows(_, _, _, _)
IndexRows(indices, from, stacks, sectors) ==
    IF from >= stacks THEN indices
    ELSE IndexRows(indices \o IndexRow(from, stacks, sectors),
                   from + 1, stacks, sectors)

\* the index loops of createSphere: what they leave in the vector passed
createSphereIndices(indices, stacks, sectors) ==
    IndexRows(indices, 0, stacks, sectors)

\* lines 775-780: the loop, for (i = from; i <= numSegments; ++i)
RECURSIVE CirclePoints(_, _, _)
CirclePoints(vertices, from, numSegments) ==
    IF from > numSegments THEN vertices
    ELSE LET angle == from * (36000 \div numSegments)
         IN CirclePoints(vertices \o <<CosDeg(angle), 0, SinDeg(angle)>>,
                         from + 1, numSegments)

\* createCircle without vertices.clear()
createCircleNoClear(vertices, numSegments) ==
    CirclePoints(vertices, 0, numSegments)

\* createCircle: what it leaves in the vector passed
createCircle(vertices, numSegments) ==
    CirclePoints(<<>>, 0, numSegments)

----------------------------------------------------------------------------
(* Texture loading: loadTexture and loadAllSolarSystemTextures *)

\* struct SolarSystemTextures, lines 996-1000: its fields in the order
\* loadAllSolarSystemTextures assigns them
TextureFields ==
    <<"error", "galaxy", "sun", "mercury", "venus", "earth", "moon", "mars",
      "jupiter", "jupiterRing", "saturn", "saturnRing",
      "uranus", "uranusRing", "neptune", "neptuneRing">>

\* glGenTextures(1, &textureID): a name that is not in use
GenTexture(inUse) == CHOOSE n \in 1..(Len(inUse) + 1) : \A k \in 1..Len(inUse) : inUse[k] # n

\* loadTexture returning no texture at all when decoding fails
loadTextureZeroOnFailure(inUse, decoded, fallbackTextureID) ==
    IF decoded THEN GenTexture(inUse) ELSE 0

\* loadTexture, lines 808-847: decoded is whether stbi_load returned data
loadTexture(inUse, decoded, fallbackTextureID) ==
    IF decoded THEN GenTexture(inUse) ELSE fallbackTextureID

----------------------------------------------------------------------------
(* Initial state: the globals' initialisers and main up to the render loop *)

\* lines 1136-1143: the textures of a start-up in which every file decoded
InitTextures ==
    /\ textures = [k \in 1..Len(TextureFields) |-> k]
    /\ failedLoads = {}

\* lines 1082-1084 and 1107-1109: the buffers main fills before its loop, at
\* the coarsest resolution
InitGeometry ==
    /\ stackCount = 2
    /\ sectorCount = 3
    /\ sphereVertices = createSphereVertices(<<>>, 2, 3)
    /\ sphereIndices = createSphereIndices(<<>>, 2, 3)
    /\ sphereCalls = 1
    /\ orbitSegments = 1
    /\ circleVertices = createCircle(<<>>, 1)
    /\ circleCalls = 1

InitCamera ==
    /\ cameraPitch = 0
    /\ cameraYaw = 0
    /\ firstMouse = TRUE
    /\ mouseControleEnabled = FALSE
    /\ lastMouseX = 640
    /\ lastMouseY = 384

InitSim ==
    /\ pc = "loop"
    /\ shouldClose = FALSE
    /\ lastFrame = 0
    /\ deltaTime = 0
    /\ totalTime = 0
    /\ effectiveDeltaTime = 0
    /\ animationPaused = FALSE
    /\ showMeteorites = FALSE
    /\ meteoriteCount = 3
    /\ \E r \in RandVals :
          meteorites = [i \in Slots |-> NewMeteorite(r, r, r, r, r)]
    /\ planets = PlanetConfig
    /\ sunRotationAngle = 0
    /\ drawn = {}

\* lines 144-147: the initialisers of the table globals
InitTable ==
    /\ showEducationalTable = TRUE
    /\ showOnlyRockyPlanets = FALSE
    /\ showOnlyGasGiants = FALSE

\* first version of main, lines 145-152: the three angles before its loop
InitFirstVersion ==
    /\ earthOrbitAngle = 0
    /\ earthRotationAngle = 0
    /\ moonOrbitAngle = 0

Init == InitSim /\ InitCamera /\ InitGeometry /\ InitTextures /\ InitTable
        /\ InitFirstVersion

\* main before its render loop with a single Planet in planets, whose fields
\* are drawn from the sets above
InitBody ==
    /\ pc = "loop"
    /\ shouldClose = FALSE
    /\ lastFrame = 0
    /\ deltaTime = 0
    /\ totalTime = 0
    /\ effectiveDeltaTime = 0
    /\ animationPaused = FALSE
    /\ showMeteorites = FALSE
    /\ meteoriteCount = 3
    /\ meteorites = [i \in Slots |-> NewMeteorite(0, 0, 0, 0, 0)]
    /\ \E n \in BodyNames, r \in BodyOrbitRadii, os \in BodyOrbitSpeeds,
          rs \in BodyRotationSpeeds, hm \in BOOLEAN :
          planets = << [name |-> n, orbitRadius |-> r, orbitSpeed |-> os,
                        orbitAngle |-> 0, rotationSpeed |-> rs, rotationAngle |-> 0,
                        size |-> 300, hasMoon |-> hm, moonDistance |-> 700,
                        moonSpeed |-> 200000, moonAngle |-> 0, moonTexture |-> 1,
                        hasRing |-> (n = "Saturno"), ringTexture |-> 1] >>
    /\ sunRotationAngle = 0
    /\ drawn = {}
    /\ InitCamera
    /\ InitGeometry
    /\ InitTextures
    /\ InitTable
    /\ InitFirstVersion

\* lines 1082-1083 and 1107-1108: main before it calls the generators
InitEmptyBuffers ==
    /\ pc = "geometry"
    /\ shouldClose = FALSE
    /\ lastFrame = 0
    /\ deltaTime = 0
    /\ totalTime = 0
    /\ effectiveDeltaTime = 0
    /\ animationPaused = FALSE
    /\ showMeteorites = FALSE
    /\ meteoriteCount = 3
    /\ meteorites = [i \in Slots |-> NewMeteorite(0, 0, 0, 0, 0)]
    /\ planets = PlanetConfig
    /\ sunRotationAngle = 0
    /\ drawn = {}
    /\ InitCamera
    /\ stackCount \in StackCounts
    /\ sectorCount \in SectorCounts
    /\ sphereVertices = <<>>
    /\ sphereIndices = <<>>
    /\ sphereCalls = 0
    /\ orbitSegments \in SegmentCounts
    /\ circleVertices = <<>>
    /\ circleCalls = 0
    /\ textures = <<>>
    /\ failedLoads = {}
    /\ InitTable
    /\ InitFirstVersion

\* line 1136: main about to call loadAllSolarSystemTextures
InitStartup ==
    /\ pc = "textures"
    /\ shouldClose = FALSE
    /\ lastFrame = 0
    /\ deltaTime = 0
    /\ totalTime = 0
    /\ effectiveDeltaTime = 0
    /\ animationPaused = FALSE
    /\ showMeteorites = FALSE
    /\ meteoriteCount = 3
    /\ meteorites = [i \in Slots |-> NewMeteorite(0, 0, 0, 0, 0)]
    /\ planets = PlanetConfig
    /\ sunRotationAngle = 0
    /\ drawn = {}
    /\ InitCamera
    /\ InitGeometry
    /\ textures = <<>>
    /\ failedLoads = {}
    /\ InitTable
    /\ InitFirstVersion

----------------------------------------------------------------------------
(* The render loop of main *)

\* lines 1209-1250: the loop test, the frame time and the meteor update.
\* dt is the clock's advance since the last frame; rx and ry are the values
\* rand() returns in this frame: rx at line 1228, ry at lines 1229 and 1232
FrameBegin ==
    /\ pc = "loop"
    /\ ~shouldClose
    /\ \E dt \in DtVals, rx \in RandVals, ry \in RandVals :
          /\ lastFrame + dt <= MaxTime
          /\ deltaTime' = dt
          /\ lastFrame' = lastFrame + dt
          /\ totalTime' = totalTime + dt
          /\ effectiveDeltaTime' = EffectiveDeltaTime(animationPaused, dt)
          /\ meteorites' = UpdateMeteorites(meteorites, showMeteorites, meteoriteCount,
                                            totalTime + dt, dt, rx, ry, ry)
    /\ drawn' = {}
    /\ pc' = "poll"
    /\ UNCHANGED <<shouldClose, animationPaused, showMeteorites, meteoriteCount,
                   planets, sunRotationAngle>>
    /\ UNCHANGED <<camVars, setupVars>>

\* line 1253: glfwPollEvents, delivering a close request (close) or none
PollEvents(close) ==
    /\ pc = "poll"
    /\ shouldClose' = (shouldClose \/ close)
    /\ pc' = "gui"
    /\ UNCHANGED <<lastFrame, deltaTime, totalTime, effectiveDeltaTime,
                   animationPaused, showMeteorites, meteoriteCount, meteorites,
                   planets, sunRotationAngle, drawn>>
    /\ UNCHANGED <<camVars, setupVars>>

\* lines 1260-1313, no widget activated in this frame
GuiIdle ==
    /\ pc = "gui"
    /\ pc' = "render"
    /\ UNCHANGED <<shouldClose, lastFrame, deltaTime, totalTime, effectiveDeltaTime,
                   animationPaused, showMeteorites, meteoriteCount, meteorites,
                   planets, sunRotationAngle, drawn>>
    /\ UNCHANGED <<camVars, setupVars>>

\* line 1267: the checkbox "Detener animacion" is clicked
GuiTogglePause ==
    /\ pc = "gui"
    /\ animationPaused' = ~animationPaused
    /\ pc' = "render"
    /\ UNCHANGED <<shouldClose, lastFrame, deltaTime, totalTime, effectiveDeltaTime,
                   showMeteorites, meteoriteCount, meteorites,
                   planets, sunRotationAngle, drawn>>
    /\ UNCHANGED <<camVars, setupVars>>

\* line 1299: the checkbox "Lluvia de meteoritos" is clicked
GuiToggleMeteorites ==
    /\ pc = "gui"
    /\ showMeteorites' = ~showMeteorites
    /\ pc' = "render"
    /\ UNCHANGED <<shouldClose, lastFrame, deltaTime, totalTime, effectiveDeltaTime,
                   animationPaused, meteoriteCount, meteorites,
                   planets, sunRotationAngle, drawn>>
    /\ UNCHANGED <<camVars, setupVars>>

\* lines 1301-1308: a value is entered into "Cantidad"
GuiEditCount ==
    /\ pc = "gui"
    /\ showMeteorites
    /\ \E v \in CountInputs : meteoriteCount' = ClampCount(v)
    /\ pc' = "render"
    /\ UNCHANGED <<shouldClose, lastFrame, deltaTime, totalTime, effectiveDeltaTime,
                   animationPaused, showMeteorites, meteorites,
                   planets, sunRotationAngle, drawn>>
    /\ UNCHANGED <<camVars, setupVars>>

\* the render step with the meteor update placed in the draw loop
RenderFrameMovingMeteors ==
    /\ pc = "render"
    /\ sunRotationAngle' =
          IF ~animationPaused
          THEN Fmod(sunRotationAngle + sunRotationSpeed * effectiveDeltaTime, FullTurn)
          ELSE sunRotationAngle
    /\ planets' = [i \in DOMAIN planets |->
                     AdvanceAngles(planets[i], effectiveDeltaTime)]
    /\ meteorites' = UpdateMeteorites(meteorites, showMeteorites, meteoriteCount,
                                      totalTime, deltaTime, 0, 0, 0)
    /\ drawn' = DrawnMeteorites(meteorites', showMeteorites, meteoriteCount)
    /\ pc' = "loop"
    /\ UNCHANGED <<shouldClose, lastFrame, deltaTime, totalTime, effectiveDeltaTime,
                   animationPaused, showMeteorites, meteoriteCount>>
    /\ UNCHANGED <<camVars, setupVars>>

\* lines 1315-1439: the Sun's angle, renderPlanet for every planet, the
\* meteor draw loop and the buffer swap
RenderFrame ==
    /\ pc = "render"
    /\ sunRotationAngle' =
          IF ~animationPaused
          THEN Fmod(sunRotationAngle + sunRotationSpeed * effectiveDeltaTime, FullTurn)
          ELSE sunRotationAngle
    /\ planets' = [i \in DOMAIN planets |->
                     AdvanceAngles(planets[i], effectiveDeltaTime)]
    /\ drawn' = DrawnMeteorites(meteorites, showMeteorites, meteoriteCount)
    /\ pc' = "loop"
    /\ UNCHANGED <<shouldClose, lastFrame, deltaTime, totalTime, effectiveDeltaTime,
                   animationPaused, showMeteorites, meteoriteCount, meteorites>>
    /\ UNCHANGED <<camVars, setupVars>>

\* the loop left whatever glfwWindowShouldClose says
CleanupWithoutClose ==
    /\ pc = "loop"
    /\ pc' = "done"
    /\ UNCHANGED <<shouldClose, lastFrame, deltaTime, totalTime, effectiveDeltaTime,
                   animationPaused, showMeteorites, meteoriteCount, meteorites,
                   planets, sunRotationAngle, drawn>>
    /\ UNCHANGED <<camVars, setupVars>>

\* lines 1442-1464: the loop test fails, the cleanup runs and main returns
Cleanup ==
    /\ pc = "loop"
    /\ shouldClose
    /\ pc' = "done"
    /\ UNCHANGED <<shouldClose, lastFrame, deltaTime, totalTime, effectiveDeltaTime,
                   animationPaused, showMeteorites, meteoriteCount, meteorites,
                   planets, sunRotationAngle, drawn>>
    /\ UNCHANGED <<camVars, setupVars>>

\* lines 1212-1232: the loop reads totalTime and initialDelay only in the test
\* totalTime > initialDelay and in initialDelay = totalTime + 3 + jitter, so
\* a run is the same from any origin of time.  This step moves the origin
\* to the present once the clock has come to MaxTime, at the top of a frame
\* of a paused animation; an initialDelay more than a millisecond in the
\* past is kept at one millisecond in the past.
EpochShift ==
    /\ pc = "loop"
    /\ ~shouldClose
    /\ animationPaused
    /\ \E dt \in DtVals : lastFrame + dt > MaxTime
    /\ lastFrame' = 0
    /\ totalTime' = 0
    /\ meteorites' = [i \in Slots |->
          [meteorites[i] EXCEPT !.initialDelay =
              IF meteorites[i].initialDelay - totalTime < -1 THEN -1
              ELSE meteorites[i].initialDelay - totalTime]]
    /\ UNCHANGED <<pc, shouldClose, deltaTime, effectiveDeltaTime, animationPaused,
                   showMeteorites, meteoriteCount, planets, sunRotationAngle, drawn>>
    /\ UNCHANGED <<camVars, setupVars>>

\* renderPlanet(shader, planets[i], ..., dt, view, projection): one call, as
\* the loop of line 1402 makes it for every planet
RenderPlanetCall(i, dt) ==
    /\ pc = "loop"
    /\ planets' = [planets EXCEPT ![i] = AdvanceAngles(@, dt)]
    /\ UNCHANGED <<pc, shouldClose, lastFrame, deltaTime, totalTime, effectiveDeltaTime,
                   animationPaused, showMeteorites, meteoriteCount, meteorites,
                   sunRotationAngle, drawn>>
    /\ UNCHANGED <<camVars, setupVars>>

----------------------------------------------------------------------------
(* The camera input handlers.  GLFW calls key_callback and mouse_callback  *)
(* from glfwPollEvents and the widgets run in the control panel; they read *)
(* and write the camera globals only, so they are taken here as a stream   *)
(* of input events.                                                        *)

\* key_callback, GLFW_KEY_UP pressed or repeated
KeyUp ==
    /\ cameraPitch' = PitchUp(cameraPitch)
    /\ UNCHANGED <<cameraYaw, firstMouse, mouseControleEnabled, lastMouseX, lastMouseY>>
    /\ UNCHANGED <<simVars, setupVars>>

\* key_callback, GLFW_KEY_DOWN pressed or repeated
KeyDown ==
    /\ cameraPitch' = PitchDown(cameraPitch)
    /\ UNCHANGED <<cameraYaw, firstMouse, mouseControleEnabled, lastMouseX, lastMouseY>>
    /\ UNCHANGED <<simVars, setupVars>>

\* key_callback, GLFW_KEY_R pressed or repeated
KeyR ==
    /\ cameraPitch' = 0
    /\ cameraYaw' = 0
    /\ firstMouse' = TRUE
    /\ UNCHANGED <<mouseControleEnabled, lastMouseX, lastMouseY>>
    /\ UNCHANGED <<simVars, setupVars>>

\* key_callback, GLFW_KEY_M pressed or repeated
KeyM ==
    /\ mouseControleEnabled' = ~mouseControleEnabled
    /\ UNCHANGED <<cameraPitch, cameraYaw, firstMouse, lastMouseX, lastMouseY>>
    /\ UNCHANGED <<simVars, setupVars>>

\* mouse_callback(window, xpos, ypos)
MouseMove(xpos, ypos) ==
    /\ mouseControleEnabled
    /\ IF firstMouse
       THEN /\ lastMouseY' = ypos
            /\ lastMouseX' = xpos
            /\ firstMouse' = FALSE
            /\ UNCHANGED <<cameraPitch, cameraYaw>>
       ELSE LET yoffset == (lastMouseY - ypos) * mouseSensitivity
                xoffset == (lastMouseX - xpos) * mouseSensitivity
            IN  /\ lastMouseY' = ypos
                /\ lastMouseX' = xpos
                /\ cameraPitch' = ClampPitch(cameraPitch + yoffset)
                /\ cameraYaw' = WrapYaw(cameraYaw + xoffset)
                /\ UNCHANGED firstMouse
    /\ UNCHANGED mouseControleEnabled
    /\ UNCHANGED <<simVars, setupVars>>

\* line 1272: the checkbox "Habilitar mouse" is clicked
GuiToggleMouse ==
    /\ mouseControleEnabled' = ~mouseControleEnabled
    /\ UNCHANGED <<cameraPitch, cameraYaw, firstMouse, lastMouseX, lastMouseY>>
    /\ UNCHANGED <<simVars, setupVars>>

\* lines 1274-1278: the button "Resetear Vista" is clicked
GuiResetView ==
    /\ cameraPitch' = 0
    /\ cameraYaw' = 0
    /\ firstMouse' = TRUE
    /\ UNCHANGED <<mouseControleEnabled, lastMouseX, lastMouseY>>
    /\ UNCHANGED <<simVars, setupVars>>

\* lines 1285-1288: the arrow button "##up" is clicked
GuiArrowUp ==
    /\ cameraPitch' = PitchUp(cameraPitch)
    /\ UNCHANGED <<cameraYaw, firstMouse, mouseControleEnabled, lastMouseX, lastMouseY>>
    /\ UNCHANGED <<simVars, setupVars>>

\* lines 1290-1293: the arrow button "##down" is clicked
GuiArrowDown ==
    /\ cameraPitch' = PitchDown(cameraPitch)
    /\ UNCHANGED <<cameraYaw, firstMouse, mouseControleEnabled, lastMouseX, lastMouseY>>
    /\ UNCHANGED <<simVars, setupVars>>

\* the yaw stays within the turns the model follows
YawFollowed == cameraYaw' <= MaxYawTurns * 36000 /\ cameraYaw' >= -(MaxYawTurns * 36000)

\* the pitch stays within the key steps the model follows
PitchFollowed ==
    /\ cameraPitch' <= MaxPitchSteps * pitchIncrement
    /\ cameraPitch' >= -(MaxPitchSteps * pitchIncrement)

----------------------------------------------------------------------------
(* The geometry set-up of main *)

\* line 1084: createSphere(sphereVertices, sphereIndices)
CreateSphereCall ==
    /\ pc = "geometry"
    /\ sphereCalls < MaxGeneratorCalls
    /\ sphereVertices' = createSphereVertices(sphereVertices, stackCount, sectorCount)
    /\ sphereIndices' = createSphereIndices(sphereIndices, stackCount, sectorCount)
    /\ sphereCalls' = sphereCalls + 1
    /\ UNCHANGED <<stackCount, sectorCount, orbitSegments, circleVertices, circleCalls>>
    /\ UNCHANGED <<simVars, camVars, texVars, tableVars, firstVersionVars>>

\* line 1109: createCircle(circleVertices, orbitSegments)
CreateCircleCall ==
    /\ pc = "geometry"
    /\ circleCalls < MaxGeneratorCalls
    /\ circleVertices' = createCircle(circleVertices, orbitSegments)
    /\ circleCalls' = circleCalls + 1
    /\ UNCHANGED <<stackCount, sectorCount, sphereVertices, sphereIndices, sphereCalls,
                   orbitSegments>>
    /\ UNCHANGED <<simVars, camVars, texVars, tableVars, firstVersionVars>>

\* line 1389: the vertex count of glDrawArrays(GL_LINE_STRIP, 0, ...)
OrbitDrawCount == orbitSegments + 1

----------------------------------------------------------------------------
(* The educational table of the control panel, renderEducationalInterface *)

\* line 410: the checkbox "Mostrar tabla de datos" is clicked
GuiToggleTable ==
    /\ pc = "gui"
    /\ showEducationalTable' = ~showEducationalTable
    /\ pc' = "render"
    /\ UNCHANGED <<showOnlyRockyPlanets, showOnlyGasGiants>>
    /\ UNCHANGED <<shouldClose, lastFrame, deltaTime, totalTime, effectiveDeltaTime,
                   animationPaused, showMeteorites, meteoriteCount, meteorites,
                   planets, sunRotationAngle, drawn>>
    /\ UNCHANGED <<camVars, geoVars, texVars, firstVersionVars>>

\* lines 424-437: one of the radio buttons "Todos los planetas", "Solo
\* rocosos", "Solo gaseosos" is clicked; they are drawn only with the table on
GuiFilter(button) ==
    /\ pc = "gui"
    /\ showEducationalTable
    /\ showOnlyRockyPlanets' = (button = "Solo rocosos")
    /\ showOnlyGasGiants' = (button = "Solo gaseosos")
    /\ pc' = "render"
    /\ UNCHANGED showEducationalTable
    /\ UNCHANGED <<shouldClose, lastFrame, deltaTime, totalTime, effectiveDeltaTime,
                   animationPaused, showMeteorites, meteoriteCount, meteorites,
                   planets, sunRotationAngle, drawn>>
    /\ UNCHANGED <<camVars, geoVars, texVars, firstVersionVars>>

----------------------------------------------------------------------------
(* The render loop of the first version of main *)

\* first version of main, lines 158-237: one iteration of the loop with
\* frame time dt
FirstVersionFrame(dt) ==
    /\ pc = "loop"
    /\ ~shouldClose
    /\ lastFrame + dt <= MaxTime
    /\ deltaTime' = dt
    /\ lastFrame' = lastFrame + dt
    /\ earthOrbitAngle' = FirstVersionAdvance(earthOrbitAngle, earthOrbitSpeed, dt)
    /\ earthRotationAngle' = FirstVersionAdvance(earthRotationAngle, earthRotationSpeed, dt)
    /\ moonOrbitAngle' = FirstVersionAdvance(moonOrbitAngle, moonOrbitSpeed, dt)
    /\ UNCHANGED <<pc, shouldClose, totalTime, effectiveDeltaTime, animationPaused,
                   showMeteorites, meteoriteCount, meteorites, planets,
                   sunRotationAngle, drawn>>
    /\ UNCHANGED <<camVars, geoVars, texVars, tableVars>>

----------------------------------------------------------------------------
(* The texture set-up of main *)

\* the sim variables other than pc
loopVars == <<shouldClose, lastFrame, deltaTime, totalTime, effectiveDeltaTime,
              animationPaused, showMeteorites, meteoriteCount, meteorites,
              planets, sunRotationAngle, drawn>>

\* line 1010: textures.error = loadTexture("textures/error.png", 0), and the
\* early return of lines 1011-1015 when it is 0
LoadErrorTexture(decoded) ==
    /\ pc = "textures"
    /\ textures = <<>>
    /\ decoded \/ Cardinality(failedLoads) < MaxDecodeFailures
    /\ textures' = <<loadTexture(textures, decoded, 0)>>
    /\ failedLoads' = IF decoded THEN failedLoads ELSE failedLoads \cup {1}
    /\ pc' = IF textures'[1] = 0 THEN "loaded" ELSE "textures"
    /\ UNCHANGED <<loopVars, camVars, geoVars, tableVars, firstVersionVars>>

\* lines 1018-1032: the next textures.<field> = loadTexture(path, textures.error)
LoadNextTexture(decoded) ==
    /\ pc = "textures"
    /\ Len(textures) >= 1
    /\ Len(textures) < Len(TextureFields)
    /\ decoded \/ Cardinality(failedLoads) < MaxDecodeFailures
    /\ textures' = Append(textures, loadTexture(textures, decoded, textures[1]))
    /\ failedLoads' = IF decoded THEN failedLoads
                      ELSE failedLoads \cup {Len(textures) + 1}
    /\ UNCHANGED <<pc, loopVars, camVars, geoVars, tableVars, firstVersionVars>>

\* line 1034: return textures
LoadAllReturn ==
    /\ pc = "textures"
    /\ Len(textures) = Len(TextureFields)
    /\ pc' = "loaded"
    /\ UNCHANGED <<loopVars, camVars, geoVars, texVars, tableVars, firstVersionVars>>

\* lines 1139-1142: if (textures.error == 0) { glfwTerminate(); return -1; },
\* and otherwise on to the render loop
CheckTextures ==
    /\ pc = "loaded"
    /\ pc' = IF textures[1] = 0 THEN "failed" ELSE "loop"
    /\ UNCHANGED <<loopVars, camVars, geoVars, texVars, tableVars, firstVersionVars>>

----------------------------------------------------------------------------
(* Specifications *)

\* the render loop with the pause checkbox and the close request
Next ==
    \/ FrameBegin
    \/ \E close \in BOOLEAN : PollEvents(close)
    \/ GuiIdle
    \/ GuiTogglePause
    \/ RenderFrame
    \/ Cleanup

Spec == Init /\ [][Next]_vars

\* main is one sequential thread: whatever statement it is at, it executes
SpecLoopFair == Init /\ [][Next]_vars /\ WF_vars(Next)

\* the render loop with the meteor-shower widgets
NextMeteors ==
    \/ FrameBegin
    \/ PollEvents(FALSE)
    \/ GuiIdle
    \/ GuiToggleMeteorites
    \/ GuiEditCount
    \/ RenderFrame

SpecMeteors == Init /\ [][NextMeteors]_vars

\* the render loop for as long as frames arrive: the user pauses the
\* animation in the first frame, which stops the planets, and in some later
\* frame switches the meteor shower on and leaves it on
NextShowerForever ==
    \/ FrameBegin
    \/ PollEvents(FALSE)
    \/ ~animationPaused /\ GuiTogglePause
    \/ animationPaused /\ GuiIdle
    \/ animationPaused /\ ~showMeteorites /\ GuiToggleMeteorites
    \/ RenderFrame
    \/ EpochShift

\* main is one sequential thread and glfwGetTime advances: frames keep coming
SpecShowerForever == Init /\ [][NextShowerForever]_vars /\ WF_vars(NextShowerForever)

\* the render loop with the pause and the meteor-shower checkboxes
NextPauseMeteors ==
    \/ FrameBegin
    \/ PollEvents(FALSE)
    \/ GuiIdle
    \/ GuiTogglePause
    \/ GuiToggleMeteorites
    \/ RenderFrame

SpecPauseMeteors == Init /\ [][NextPauseMeteors]_vars

\* the camera input events
NextCamera ==
    \/ KeyUp
    \/ KeyDown
    \/ KeyR
    \/ KeyM
    \/ \E xpos \in MouseXs, ypos \in MouseYs : MouseMove(xpos, ypos) /\ YawFollowed
    \/ GuiToggleMouse
    \/ GuiResetView
    \/ GuiArrowUp
    \/ GuiArrowDown

SpecCamera == Init /\ [][NextCamera]_vars

\* the render loop with the pause checkbox and the camera inputs: the key and
\* cursor callbacks run inside glfwPollEvents, the camera widgets in the
\* control panel
NextPausedCamera ==
    \/ FrameBegin
    \/ PollEvents(FALSE)
    \/ GuiIdle
    \/ GuiTogglePause
    \/ RenderFrame
    \/ pc = "poll" /\ KeyUp /\ PitchFollowed
    \/ pc = "poll" /\ KeyM
    \/ pc = "poll" /\ \E xpos \in LoopMouseXs, ypos \in LoopMouseYs :
                          MouseMove(xpos, ypos) /\ YawFollowed
    \/ pc = "gui" /\ GuiArrowDown /\ PitchFollowed
    \/ pc = "gui" /\ GuiResetView

SpecPausedCamera == Init /\ [][NextPausedCamera]_vars

\* the camera steered by the mouse, with the resets
NextView ==
    \/ KeyM
    \/ GuiToggleMouse
    \/ \E xpos \in ViewMouseXs, ypos \in ViewMouseYs : MouseMove(xpos, ypos) /\ YawFollowed
    \/ KeyR
    \/ GuiResetView

SpecView == Init /\ [][NextView]_vars

\* calls of renderPlanet on a single body
NextBody == \E i \in DOMAIN planets, dt \in BodyDts : RenderPlanetCall(i, dt)

SpecBody == InitBody /\ [][NextBody]_vars

\* The generators alone, on buffers that start empty
NextGeometry ==
    \/ CreateSphereCall
    \/ CreateCircleCall

SpecGeometry == InitEmptyBuffers /\ [][NextGeometry]_vars

\* the render loop with the widgets of the educational table
NextTable ==
    \/ FrameBegin
    \/ PollEvents(FALSE)
    \/ GuiIdle
    \/ GuiToggleTable
    \/ \E button \in {"Todos los planetas", "Solo rocosos", "Solo gaseosos"} :
          GuiFilter(button)
    \/ RenderFrame

SpecTable == Init /\ [][NextTable]_vars

\* the render loop of the first version
NextFirstVersion == \E dt \in FirstVersionDts : FirstVersionFrame(dt)

SpecFirstVersion == Init /\ [][NextFirstVersion]_vars

\* main from the texture load to the render loop
NextStartup ==
    \/ \E decoded \in BOOLEAN : LoadErrorTexture(decoded)
    \/ \E decoded \in BOOLEAN : LoadNextTexture(decoded)
    \/ LoadAllReturn
    \/ CheckTextures

SpecStartup == InitStartup /\ [][NextStartup]_vars

----------------------------------------------------------------------------
(* Properties *)

\* the step that runs lines 1209-1250: one tick of the meteor scheduler
Tick == pc = "loop" /\ pc' = "poll"

InTurn(a) == 0 <= a /\ a < FullTurn

\* the position of slot i lies outside the exit test of line 1239
Exited(i) == meteorites[i].x > ExitBound \/ meteorites[i].y < -ExitBound

\* C1: after every call of renderPlanet, in any number of frames with
\* deltaTime >= 0 from the configured planets, each planet's orbitAngle and
\* rotationAngle and, for a planet with a moon, moonAngle lie in [0,360).
C1_AnglesNormalized ==
    \A i \in PlanetIds :
        /\ InTurn(planets[i].orbitAngle)
        /\ InTurn(planets[i].rotationAngle)
        /\ PlanetConfig[i].hasMoon => InTurn(planets[i].moonAngle)

\* the Earth's moon (200 deg/s) has wrapped behind the Earth's orbit angle
\* (30 deg/s) after rendered frames
C1_Witness ==
    /\ pc = "loop"
    /\ planets[3].orbitAngle > 0
    /\ planets[3].moonAngle < planets[3].orbitAngle

\* C2: after any sequence of camera inputs (arrow keys, arrow buttons, mouse
\* movements of any magnitude, view resets) cameraPitch lies in
\* [minPitch, maxPitch] = [-90, 90].
C2_PitchWithinLimits == minPitch <= cameraPitch /\ cameraPitch <= maxPitch

\* a mouse movement has been applied and the pitch sits on the lower limit,
\* which no sum of key steps and mouse movements reaches without the clamp
C2_Witness == ~firstMouse /\ cameraPitch = minPitch

\* C3: after any sequence of camera inputs, cameraYaw lies in [0,360).
C3_YawNormalized == 0 <= cameraYaw /\ cameraYaw < 36000

\* C4: a Dormant slot stays invisible, with its position unchanged, on every
\* tick at which totalTime has not exceeded the slot's initialDelay.
C4_DormantStaysDormant ==
    [][\A i \in Slots :
          (~meteorites[i].isVisible /\ totalTime' <= meteorites[i].initialDelay)
          => /\ ~meteorites'[i].isVisible
             /\ meteorites'[i].x = meteorites[i].x
             /\ meteorites'[i].y = meteorites[i].y]_vars

\* the shower is on, a tick has run and slot 0 is still waiting for its time
C4_Witness ==
    /\ pc = "poll"
    /\ showMeteorites
    /\ ~meteorites[0].isVisible
    /\ totalTime > 0
    /\ totalTime <= meteorites[0].initialDelay

C6_ExitedNotDrawn ==
    [][/\ \A i \in Slots :
            (/\ Tick
             /\ showMeteorites
             /\ i < meteoriteCount
             /\ meteorites[i].isVisible
             /\ \/ meteorites[i].x + meteorites[i].vx * deltaTime' > ExitBound
                \/ meteorites[i].y + meteorites[i].vy * deltaTime' < -ExitBound)
            => ~meteorites'[i].isVisible
       /\ \A i \in drawn' : meteorites'[i].isVisible]_vars

\* a frame has been drawn with the shower on and slot 0, which left the
\* screen, was not drawn
C6_Witness ==
    /\ pc = "loop"
    /\ totalTime > 0
    /\ showMeteorites
    /\ ~meteorites[0].isVisible
    /\ Exited(0)
    /\ 0 \notin drawn

C9_PausedFreezesAngles ==
    [][animationPaused =>
          (planets' = planets /\ sunRotationAngle' = sunRotationAngle)]_vars

\* C9 amended: a frame that starts with animationPaused true leaves every
\* planet's angles and the Sun's angle unchanged, whatever the frame time:
\* the tick of such a frame sets effectiveDeltaTime to 0, nothing else in
\* the frame sets it, and the frame changes angles only when rendering with
\* a non-zero effectiveDeltaTime.
C9_PausedFrameKeepsAngles ==
    [][/\ (Tick /\ animationPaused) => effectiveDeltaTime' = 0
       /\ ~Tick => effectiveDeltaTime' = effectiveDeltaTime
       /\ (pc # "render" \/ effectiveDeltaTime = 0)
             => (planets' = planets /\ sunRotationAngle' = sunRotationAngle)]_vars

\* a frame that started paused, with a frame time above 0, has been rendered
\* after the planets had moved
C9_Witness ==
    /\ pc = "loop"
    /\ animationPaused
    /\ deltaTime > 0
    /\ effectiveDeltaTime = 0
    /\ planets[3].orbitAngle > 0

\* C10: in a frame that starts with animationPaused true no Active meteor's
\* position changes.
C10_PausedFreezesMeteors ==
    [][(Tick /\ animationPaused) =>
          \A i \in Slots :
              meteorites[i].isVisible
              => /\ meteorites'[i].x = meteorites[i].x
                 /\ meteorites'[i].y = meteorites[i].y]_vars

\* C11: the camera inputs are live whether the animation is paused or not:
\* in every state, with animationPaused true as with it false, a key press
\* and an arrow button move cameraPitch by the fixed step of 0.48 degrees up
\* to the limit, the resets set pitch and yaw to 0, and with mouse control on
\* a cursor movement changes pitch and yaw by 0.5 degrees per pixel.
C11_CameraLiveWhilePaused ==
    LET up   == IF cameraPitch + pitchIncrement > maxPitch
                THEN maxPitch ELSE cameraPitch + pitchIncrement
        down == IF cameraPitch - pitchIncrement < minPitch
                THEN minPitch ELSE cameraPitch - pitchIncrement
    IN  /\ ENABLED (KeyUp /\ cameraPitch' = up)
        /\ ENABLED (GuiArrowUp /\ cameraPitch' = up)
        /\ ENABLED (KeyDown /\ cameraPitch' = down)
        /\ ENABLED (GuiArrowDown /\ cameraPitch' = down)
        /\ ENABLED (KeyR /\ cameraPitch' = 0 /\ cameraYaw' = 0)
        /\ ENABLED (GuiResetView /\ cameraPitch' = 0 /\ cameraYaw' = 0)
        /\ (mouseControleEnabled /\ ~firstMouse) =>
              \A xpos \in LoopMouseXs, ypos \in {364, 384, 404} :
                  ENABLED (/\ MouseMove(xpos, ypos)
                           /\ cameraPitch' - cameraPitch
                                  = (lastMouseY - ypos) * mouseSensitivity
                           /\ (cameraYaw' - cameraYaw) % 36000
                                  = ((lastMouseX - xpos) * mouseSensitivity) % 36000)

\* a frame that started paused is at its control panel, and the camera has
\* been pitched by keys and turned by the cursor
C11_Witness ==
    /\ pc = "gui"
    /\ animationPaused
    /\ deltaTime > 0
    /\ effectiveDeltaTime = 0
    /\ cameraPitch = 2 * pitchIncrement
    /\ cameraYaw = 9000

\* C12 as stated: no particle and no body state is advanced before the
\* frame's input has been polled, i.e. the meteor pool, the planets' angles
\* and the Sun's angle change only in the steps that follow glfwPollEvents.
C12_AdvanceAfterPolling ==
    [][(meteorites' # meteorites \/ planets' # planets
           \/ sunRotationAngle' # sunRotationAngle)
       => pc \in {"gui", "render"}]_vars

\* C12 amended: every frame runs the frame time and the meteor update, then
\* the input polling, then the control panel, then the render step with the
\* Sun's and the planets' advance and the draws; the meteor pool changes in
\* the first of these steps only, before the polling, and the planets' and
\* the Sun's angles and the draw set in the last one only, after it.
C12_FramePhaseOrder ==
    [][/\ pc' # pc => <<pc, pc'>> \in {<<"loop", "poll">>, <<"poll", "gui">>,
                                       <<"gui", "render">>, <<"render", "loop">>,
                                       <<"loop", "done">>}
       /\ meteorites' # meteorites => Tick
       /\ (planets' # planets \/ sunRotationAngle' # sunRotationAngle)
             => (pc = "render" /\ pc' = "loop")
       /\ drawn' # {} => (pc = "render" /\ pc' = "loop")]_vars

\* the frame's input has not been polled yet and a meteor of the pool has
\* already been moved away from its spawn point
C12_Witness ==
    /\ pc = "poll"
    /\ showMeteorites
    /\ meteorites[0].isVisible
    /\ meteorites[0].x > SpawnX(0)
    /\ planets[3].orbitAngle > 0

\* C13: the angle advance is additive: for a body with fixed speeds and
\* dt1, dt2 >= 0, the advance by dt1 followed by the advance by dt2 gives the
\* same orbitAngle, rotationAngle and moonAngle as one advance by dt1 + dt2.
C13_AdvanceAdditive ==
    \A i \in DOMAIN planets :
        \A dt1 \in BodyDts, dt2 \in BodyDts :
            dt1 + dt2 \in BodyDts
            => AdvanceAngles(AdvanceAngles(planets[i], dt1), dt2)
                  = AdvanceAngles(planets[i], dt1 + dt2)

\* a body that turns forward with a moon has been advanced to an orbit angle
\* from which the advances by 3 s + 3 s and by 6 s wrap past 360
C13_Witness ==
    /\ planets[1].orbitSpeed > 0
    /\ planets[1].hasMoon
    /\ planets[1].orbitAngle = 270000000
    /\ planets[1].moonAngle > 0

\* C14: for a body with speeds >= 0, one advance by dt sets orbitAngle and
\* rotationAngle to (angle + speed * dt) modulo 360, and moonAngle as well if
\* the body has a moon and leaves it unchanged if not; a body with
\* orbitSpeed 30 and orbitAngle 0 advanced by 6 s has orbitAngle 180.
C14_AdvanceIsModulo ==
    \A i \in DOMAIN planets :
        LET p == planets[i] IN
        (p.orbitSpeed >= 0 /\ p.orbitAngle >= 0) =>
            \A dt \in BodyDts :
                LET q == AdvanceAngles(p, dt) IN
                /\ q.orbitAngle = (p.orbitAngle + p.orbitSpeed * dt) % FullTurn
                /\ q.rotationAngle = (p.rotationAngle + p.rotationSpeed * dt) % FullTurn
                /\ q.moonAngle = IF p.hasMoon
                                 THEN (p.moonAngle + p.moonSpeed * dt) % FullTurn
                                 ELSE p.moonAngle
                /\ (p.orbitSpeed = 30000 /\ p.orbitAngle = 0 /\ dt = 6000)
                      => q.orbitAngle = 180000000
                /\ \A f \in DOMAIN p \ {"orbitAngle", "rotationAngle", "moonAngle"} :
                      q[f] = p[f]

\* a body without a moon, whose moonSpeed is 200, has been advanced from
\* orbit angle 0 at 30 degrees per second to 180
C14_Witness ==
    /\ planets[1].orbitSpeed = 30000
    /\ ~planets[1].hasMoon
    /\ planets[1].moonSpeed > 0
    /\ planets[1].orbitAngle = 180000000
    /\ planets[1].moonAngle = 0

\* C15: after an advance with dt >= 0 every angle lies in [0,360), also for
\* a body whose speed is negative.
C15_AnglesNeverNegative ==
    \A i \in DOMAIN planets :
        /\ 0 <= planets[i].orbitAngle /\ planets[i].orbitAngle < FullTurn
        /\ 0 <= planets[i].rotationAngle /\ planets[i].rotationAngle < FullTurn
        /\ 0 <= planets[i].moonAngle /\ planets[i].moonAngle < FullTurn

\* C16: for two body states that differ only in rotationAngle, a call of
\* renderPlanet computes the same ring model and the same moon model (both
\* start from planetSystem), while the planet's own model follows the spin.
C16_RingAndMoonIgnoreSpin ==
    \A i \in DOMAIN planets :
        \A dt \in BodyDts, spin \in BodySpins :
            LET a == RenderPlanetModels(planets[i], dt)
                b == RenderPlanetModels([planets[i] EXCEPT !.rotationAngle = spin], dt)
            IN  /\ a.ring = b.ring
                /\ a.moon = b.moon
                /\ (planets[i].rotationAngle # spin) => a.planet # b.planet

\* Saturno with a moon has been rendered until it has turned by 120 degrees
\* on its axis and moved on its orbit
C16_Witness ==
    /\ planets[1].name = "Saturno"
    /\ planets[1].hasRing
    /\ planets[1].hasMoon
    /\ planets[1].rotationAngle = 120000000
    /\ planets[1].orbitAngle # 0

\* C17: the Sun goes through the pipeline of the planets: in every frame its
\* angle is updated as renderPlanet, called with the frame's
\* effectiveDeltaTime, updates the rotationAngle of a body with orbitRadius 0
\* that spins at the Sun's speed.
C17_SunThroughPlanetPipeline ==
    [][pc = "render" =>
          LET sun == [name |-> "Sol", orbitRadius |-> 0, orbitSpeed |-> 0,
                      orbitAngle |-> 0, rotationSpeed |-> sunRotationSpeed,
                      rotationAngle |-> sunRotationAngle, size |-> 1000,
                      hasMoon |-> FALSE, moonDistance |-> 0, moonSpeed |-> 0,
                      moonAngle |-> 0, moonTexture |-> 0,
                      hasRing |-> FALSE, ringTexture |-> 0]
          IN  sunRotationAngle' = AdvanceAngles(sun, effectiveDeltaTime).rotationAngle]_vars

\* C18: for every pitch in [-90, 90] the vector handed to the normalisation
\* is not the zero vector; at pitch +90 and -90, which the clamp lets the
\* camera reach, the blend factor is 0 and the vector is (0, 0, -1) and
\* (0, 0, 1).
C18_UpVectorNeverZero ==
    /\ CameraUp(cameraPitch) # <<0, 0, 0>>
    /\ cameraPitch = maxPitch
          => (UpFactor(cameraPitch) = 0 /\ CameraUp(cameraPitch) = <<0, 0, -10000>>)
    /\ cameraPitch = minPitch
          => (UpFactor(cameraPitch) = 0 /\ CameraUp(cameraPitch) = <<0, 0, 10000>>)

\* the mouse has pitched the camera to the upper limit
C18_Witness == ~firstMouse /\ mouseControleEnabled /\ cameraPitch = maxPitch

\* C19: while |cameraPitch| does not exceed 70 degrees the up-vector is
\* exactly (0, 1, 0); beyond it the Y component is the blend factor
\* (90 - |pitch|) / 20, which lies in [0, 1), and the Z component is
\* 1 - factor in size with the sign opposite to the pitch.
C19_UpVectorBlend ==
    LET up == CameraUp(cameraPitch)
        f  == UpFactor(cameraPitch)
    IN  /\ Abs(cameraPitch) <= 7000 => up = <<0, 10000, 0>>
        /\ Abs(cameraPitch) > 7000 =>
              /\ f * 2000 = (9000 - Abs(cameraPitch)) * 10000
              /\ 0 <= f /\ f < 10000
              /\ up[1] = 0 /\ up[2] = f
              /\ Abs(up[3]) = 10000 - f
              /\ cameraPitch > 0 => up[3] < 0
              /\ cameraPitch < 0 => up[3] > 0

\* the mouse has pitched the camera down to -80 degrees, where the blend is
\* active with the factor 0.5
C19_Witness == ~firstMouse /\ cameraPitch = -8000 /\ UpFactor(cameraPitch) = 5000

\* C20: the eye is at (0, 0, 22) for pitch 0 and yaw 0, at (22, 0, 0) for
\* pitch 0 and yaw 90, at (0, 22, 0) for pitch 90, and for every pitch and yaw
\* the camera reaches it lies at the distance 22 from the origin (within
\* 0.01, the precision of the sine table).
C20_EyeOnSphere ==
    LET pos == CameraPos(cameraPitch, cameraYaw)
        d   == cameraDistance * 1000
        sq  == pos[1] * pos[1] + pos[2] * pos[2] + pos[3] * pos[3]
    IN  /\ (cameraPitch = 0 /\ cameraYaw = 0) => pos = <<0, 0, d>>
        /\ (cameraPitch = 0 /\ cameraYaw = 9000) => pos = <<d, 0, 0>>
        /\ cameraPitch = maxPitch => pos = <<0, d, 0>>
        /\ (d - 10) * (d - 10) <= sq /\ sq <= (d + 10) * (d + 10)

\* the mouse has pitched the camera to 40 degrees and turned it to a yaw of
\* -90 degrees
C20_Witness == ~firstMouse /\ cameraPitch = 4000 /\ cameraYaw = -9000


\* the index triples of the buffer whose first index lies in stack i
TrianglesOfStack(i) ==
    {t \in 0..((Len(sphereIndices) \div 3) - 1) :
        sphereIndices[3 * t + 1] \div (sectorCount + 1) = i}

\* C21: after createSphere has run once on empty buffers the vertex buffer
\* holds (stackCount+1)*(sectorCount+1) vertices of eight floats, position
\* then normal then UV, the index buffer holds 3*sectorCount*(2*stackCount-2)
\* indices, one triangle per quad in the first and the last stack and two in
\* every other, and every index is below the number of vertices
C21_SphereBuffers ==
    sphereCalls = 1 =>
        LET count == (stackCount + 1) * (sectorCount + 1)
            v(k, c) == sphereVertices[8 * k + c]
        IN /\ Len(sphereVertices) = 8 * count
           /\ \A k \in 0..(count - 1) :
                 /\ \A c \in 1..3 : v(k, c) \in -10000..10000 /\ v(k, c + 3) = v(k, c)
                 /\ v(k, 7) = ((k % (sectorCount + 1)) * 10000) \div sectorCount
                 /\ v(k, 8) = ((k \div (sectorCount + 1)) * 10000) \div stackCount
           /\ Len(sphereIndices) = 3 * sectorCount * (2 * stackCount - 2)
           /\ \A i \in 0..(stackCount - 1) :
                 Cardinality(TrianglesOfStack(i)) =
                     IF i = 0 \/ i = stackCount - 1 THEN sectorCount
                     ELSE 2 * sectorCount
           /\ \A n \in 1..Len(sphereIndices) :
                 sphereIndices[n] >= 0 /\ sphereIndices[n] < count

C21_Witness ==
    /\ sphereCalls = 1
    /\ stackCount = 18
    /\ sectorCount = 36
    /\ Len(sphereIndices) = 3672

\* the X, Y, Z of point k (from 0) of the orbit circle
CirclePoint(k) == SubSeq(circleVertices, 3 * k + 1, 3 * k + 3)

\* C22: after createCircle(circleVertices, orbitSegments), however often it
\* has been called, the buffer holds orbitSegments + 1 points of three
\* floats, each with Y = 0 and X, Z on the unit circle (to the rounding of
\* the sine table), the last point equal to the first, and that is the
\* number of points the orbit draw call submits
C22_CircleBuffer ==
    circleCalls >= 1 =>
        /\ Len(circleVertices) = 3 * (orbitSegments + 1)
        /\ \A k \in 0..orbitSegments :
              /\ CirclePoint(k)[2] = 0
              /\ Abs(CirclePoint(k)[1] * CirclePoint(k)[1]
                     + CirclePoint(k)[3] * CirclePoint(k)[3] - 100000000) <= 30000
        /\ CirclePoint(orbitSegments) = CirclePoint(0)
        /\ Len(circleVertices) = 3 * OrbitDrawCount

C22_Witness ==
    /\ circleCalls = 2
    /\ orbitSegments = 8
    /\ CirclePoint(1) = <<7071, 0, 7071>>

\* C23: the buffers a generator leaves depend on nothing but its inputs:
\* after any number of calls sphereVertices and sphereIndices are what
\* createSphere produces and circleVertices is what createCircle produces
C23_GeneratorsRepeatable ==
    /\ sphereCalls >= 1 =>
          /\ sphereVertices = createSphereVertices(<<>>, stackCount, sectorCount)
          /\ sphereIndices = createSphereIndices(<<>>, stackCount, sectorCount)
    /\ circleCalls >= 1 =>
          circleVertices = createCircle(<<>>, orbitSegments)

\* C24: a field whose file failed to decode holds the fallback handle it
\* was loaded with (0 for the error texture, the error texture's handle for
\* every other) and no handle of its own; main returns -1 exactly when the
\* error texture failed to load; and when main reaches its render loop all
\* sixteen fields of SolarSystemTextures are assigned and none is 0
C24_TexturesFailSoft ==
    /\ \A k \in 1..Len(textures) :
          IF k \in failedLoads
          THEN textures[k] = (IF k = 1 THEN 0 ELSE textures[1])
          ELSE textures[k] # 0 /\ \A j \in 1..Len(textures) : j # k /\ j \notin failedLoads
                                                              => textures[j] # textures[k]
    /\ pc = "failed" => 1 \in failedLoads
    /\ pc = "loop" => 1 \notin failedLoads
    /\ pc = "loop" =>
          /\ Len(textures) = Len(TextureFields)
          /\ \A k \in 1..Len(textures) : textures[k] # 0

C24_Witness ==
    /\ pc = "loop"
    /\ failedLoads = {7, 12}
    /\ textures[7] = textures[1]

\* C25: the loop is left only at its test and only with a close requested
\* (a request, once made, stays); a frame in which the close was requested
\* runs on through the panel and the rendering back to the test; at the
\* test with a close requested no further frame starts; and after a close
\* request main does reach the end of its cleanup
C25_LoopEndsOnClose ==
    /\ [][pc' = "done" => (pc = "loop" /\ shouldClose) \/ pc = "done"]_vars
    /\ [][shouldClose => shouldClose']_vars
    /\ [][(shouldClose /\ pc = "gui") => pc' = "render"]_vars
    /\ [][(shouldClose /\ pc = "render") =>
              pc' = "loop" /\ (effectiveDeltaTime > 0 => planets' # planets)]_vars
    /\ [][(shouldClose /\ pc = "loop") => pc' = "done"]_vars
    /\ (shouldClose ~> pc = "done")

C25_Witness ==
    /\ pc = "done"
    /\ shouldClose
    /\ totalTime > 0

\* C26: in a session whose frames keep arriving, a slot below meteoriteCount
\* that is visible is later hidden, and one that is hidden is later visible,
\* as long as the shower stays on and the count stays above the slot's
\* index; as this holds from every state, the slot is reused forever
C26_SlotsReusedForever ==
    \A i \in Slots :
        /\ (showMeteorites /\ i < meteoriteCount /\ meteorites[i].isVisible)
               ~> (~meteorites[i].isVisible \/ ~showMeteorites \/ i >= meteoriteCount)
        /\ (showMeteorites /\ i < meteoriteCount /\ ~meteorites[i].isVisible)
               ~> (meteorites[i].isVisible \/ ~showMeteorites \/ i >= meteoriteCount)

C26_Witness ==
    /\ showMeteorites
    /\ meteorites[0].isVisible
    /\ meteorites[5].initialDelay = -1
    /\ totalTime > 0

\* C27: whenever mouse control goes from disabled to enabled the next cursor
\* movement is treated as the first one (firstMouse holds), so that
\* mouse_callback only records the position and leaves cameraPitch and
\* cameraYaw alone
C27_ActivationRearmsFirstMouse ==
    [][(~mouseControleEnabled /\ mouseControleEnabled') => firstMouse']_vars

\* C28: in the first version's loop the three angles lie in [0,360) after
\* every frame
C28_FirstVersionAnglesNormalized ==
    /\ InTurn(earthOrbitAngle)
    /\ InTurn(earthRotationAngle)
    /\ InTurn(moonOrbitAngle)

\* C29: the two filters are never both set; with the rocky filter every
\* table row is of type "Rocoso", with the gas filter every row is of type
\* "Gaseoso", and with neither filter the table has all eight rows
C29_FiltersSelectByType ==
    LET rows == TableRows(showEducationalTable, showOnlyRockyPlanets, showOnlyGasGiants)
    IN /\ ~(showOnlyRockyPlanets /\ showOnlyGasGiants)
       /\ showEducationalTable =>
             /\ showOnlyRockyPlanets =>
                   \A n \in 1..Len(rows) : rows[n].planetType = "Rocoso"
             /\ showOnlyGasGiants =>
                   \A n \in 1..Len(rows) : rows[n].planetType = "Gaseoso"
             /\ (~showOnlyRockyPlanets /\ ~showOnlyGasGiants) => Len(rows) = 8

\* C30: meteoriteCount is between 1 and MAX_METEORITES in every state, the
\* tops of the update and of the draw loop included, whatever is typed into
\* "Cantidad"; only slots below meteoriteCount are drawn; and no step moves
\* a slot whose index is at or above meteoriteCount
C30_CountBoundsThePool ==
    /\ [](/\ 1 <= meteoriteCount
          /\ meteoriteCount <= MAX_METEORITES
          /\ \A i \in drawn : i \in Slots /\ i < meteoriteCount)
    /\ [][\A i \in Slots : i >= meteoriteCount =>
              /\ meteorites'[i].x = meteorites[i].x
              /\ meteorites'[i].y = meteorites[i].y]_vars

C30_Witness ==
    /\ pc = "loop"
    /\ showMeteorites
    /\ meteoriteCount = 1
    /\ meteorites[0].isVisible
    /\ meteorites[2].isVisible
    /\ drawn = {0}

====
